---- MODULE Spec2Model ----
(***************************************************************************)
(* Session types with borrowing (src/src/lib.rs) and the two-participant   *)
(* example (src/examples/basic_use.rs).                                    *)
(*                                                                         *)
(* A session value Snd<T, Cont> / Recv<T, Cont> is a chain of steps, each  *)
(* owning a channel endpoint and a PanicOnDrop guard, ending in End or in  *)
(* Return.  Execution contexts (threads) hold session values in local      *)
(* bindings (slots) and call new, send, recv, split! and drop on them.     *)
(***************************************************************************)
EXTENDS Integers, Sequences, FiniteSets, TLC

\* ---------------------------------------------------------------- bounds
MaxGuards == 3      \* guards (= Snd/Recv steps) constructed in one run

Ctx == {"A", "B"}
Chans == {1, 2}
\* the two local bindings of a context: split!(x => a, b) binds both
Slots == {1, 2}
NumSlots == Cardinality(Slots)
Payloads == {1, 2}

VARIABLES
    held,       \* held[t][i]: the session value bound in slot i of context t
    st,         \* st[t]: where context t is (running, inside send/recv, dead)
    closed,     \* closed[c]: channel c is closed/disconnected
    gstate,     \* gstate[g]: what became of guard g
    panicking,  \* panicking[t]: std::thread::panicking() in context t
    failures,   \* failures[t]: the panics raised in context t, in order
    ops,        \* ops[t]: the transport operations context t performed
    got,        \* got[t]: the values recv returned to context t
    pcx         \* pcx[t]: the statement context t (or main, "M") is at, when it runs a program

vars == <<held, st, closed, gstate, panicking, failures, ops, got, pcx>>

\* --------------------------------------------------------- session values
\* pub struct End; pub struct Return<'a>(PhantomData<&'a ()>);
\* anchor: the slot of the binding the value's lifetime 'a borrows (0: 'static)
End == [steps |-> <<>>, tail |-> "End", anchor |-> 0]
Return == [steps |-> <<>>, tail |-> "Return", anchor |-> 0]
\* an unbound (moved-from or never initialised) binding
NoVal == [steps |-> <<>>, tail |-> "None", anchor |-> 0]

\* Snd(sender, cont, guard) / Recv(receiver, cont, guard): the tuple-struct
\* constructors; the step is put in front of its continuation
Snd(ch, cont, g) ==
    [cont EXCEPT !.steps = <<[dir |-> "Snd", ch |-> ch, g |-> g]>> \o @]

Recv(ch, cont, g) ==
    [cont EXCEPT !.steps = <<[dir |-> "Recv", ch |-> ch, g |-> g]>> \o @]

\* self.1: the continuation of a step value
Cont(v) == [v EXCEPT !.steps = Tail(@)]

Reverse(s) == [i \in 1..Len(s) |-> s[Len(s) + 1 - i]]

\* ------------------------------------------------------------ PanicOnDrop
\* Drop for PanicOnDrop: whether drop raises a panic, given thread::panicking()
PanicOnDropDropAlways(isPanicking) == TRUE

PanicOnDropDropNever(isPanicking) == FALSE

PanicOnDropDrop(isPanicking) == ~isPanicking

\* What became of a guard: armed (live), disarmed (forgotten), or dropped
\* (its destructor ran: in which context, whether that context was already
\* unwinding, and whether the destructor raised a panic)
Armed == [s |-> "armed", by |-> "-", unwinding |-> FALSE, raised |-> FALSE]
Disarmed == [s |-> "disarmed", by |-> "-", unwinding |-> FALSE, raised |-> FALSE]

\* The effect of destroying the guards gs, in order, in the context e.t whose
\* panic state is e = [t, pan, fails, gst]
RECURSIVE DropGuards(_, _)
DropGuards(gs, e) ==
    IF gs = <<>> THEN e
    ELSE LET g == Head(gs)
             raise == PanicOnDropDrop(e.pan)
         IN DropGuards(Tail(gs),
                [t |-> e.t,
                 pan |-> e.pan \/ raise,
                 fails |-> IF raise
                           THEN Append(e.fails, [kind |-> "affine", g |-> g])
                           ELSE e.fails,
                 gst |-> [e.gst EXCEPT ![g] = [s |-> "dropped", by |-> e.t,
                                               unwinding |-> e.pan,
                                               raised |-> raise]]])

\* PanicOnDrop::disarm with an empty body: self is dropped at the end of it
DisarmByDrop(g, e) == DropGuards(<<g>>, e)

\* PanicOnDrop::disarm: std::mem::forget(self), the destructor never runs
Disarm(g, e) == [e EXCEPT !.gst[g] = Disarmed]

\* Drop glue of a session value: fields are destroyed in declaration order
\* (endpoint, continuation, guard), so the innermost guard goes first
DropOrder(v) == Reverse([i \in 1..Len(v.steps) |-> v.steps[i].g])

\* ------------------------------------------------------------------ split
\* Which prefix lengths k a value can be split at: End splits only into
\* (Return, End); Snd/Recv split into a one-step-longer prefix when the
\* continuation splits, or into (Return, Self).  Return implements no Split.
CanSplit(v, k) ==
    /\ v.tail \in {"End", "Return"}
    /\ k \in 0..Len(v.steps)
    /\ (k = Len(v.steps) => v.tail = "End")

\* A split that loses the steps of the prefix instead of handing them out
RECURSIVE SplitDropsPrefix(_, _)
SplitDropsPrefix(v, k) ==
    IF k = 0 THEN <<Return, v>>
    ELSE LET r == SplitDropsPrefix(Cont(v), k - 1)
         IN <<r[1], r[2]>>

\* A split whose empty-prefix case peels the head step off all the same
RECURSIVE SplitPeelsOne(_, _)
SplitPeelsOne(v, k) ==
    IF v.steps = <<>> THEN <<Return, v>>
    ELSE LET h == Head(v.steps)
             r == IF k = 0 THEN <<Return, Cont(v)>> ELSE SplitPeelsOne(Cont(v), k - 1)
         IN IF h.dir = "Snd"
            THEN <<Snd(h.ch, r[1], h.g), r[2]>>
            ELSE <<Recv(h.ch, r[1], h.g), r[2]>>

\* A split that hands the prefix out and also leaves it in the remainder
RECURSIVE SplitKeepsPrefix(_, _)
SplitKeepsPrefix(v, k) ==
    IF k = 0 THEN <<Return, v>>
    ELSE LET h == Head(v.steps)
             r == SplitKeepsPrefix(Cont(v), k - 1)
         IN IF h.dir = "Snd"
            THEN <<Snd(h.ch, r[1], h.g), Snd(h.ch, r[2], h.g)>>
            ELSE <<Recv(h.ch, r[1], h.g), Recv(h.ch, r[2], h.g)>>

\* Split::split: (Return(PhantomData), self) for an empty prefix, otherwise
\* let (p, remainder) = self.1.split(); (Snd(self.0, p, self.2), remainder)
RECURSIVE Split(_, _)
Split(v, k) ==
    IF k = 0 THEN <<Return, v>>
    ELSE LET h == Head(v.steps)
             r == Split(Cont(v), k - 1)
         IN IF h.dir = "Snd"
            THEN <<Snd(h.ch, r[1], h.g), r[2]>>
            ELSE <<Recv(h.ch, r[1], h.g), r[2]>>

\* RestrictLifetime::restrict_to_ref: rebuilds the value with its Return
\* bound to the lifetime of the reference (the binding in slot a)
RECURSIVE RestrictToRef(_, _)
RestrictToRef(v, a) ==
    IF v.steps = <<>> THEN [Return EXCEPT !.anchor = a]
    ELSE LET h == Head(v.steps)
         IN IF h.dir = "Snd"
            THEN Snd(h.ch, RestrictToRef(Cont(v), a), h.g)
            ELSE Recv(h.ch, RestrictToRef(Cont(v), a), h.g)

\* restrict_with_type_info: unrestricted.restrict_to_ref(reference)
RestrictWithTypeInfo(v, a) == RestrictToRef(v, a)

\* split!($what => $a, $b): <<$a, $b>>, $a restricted to a reference to $b
SplitMacro(v, k, b) ==
    LET s == Split(v, k)
    IN <<RestrictWithTypeInfo(s[1], b), s[2]>>

\* ------------------------------------------------------- borrows of slots
\* The bindings whose lifetime rests, directly or through another borrow, on
\* a binding of S
RECURSIVE Dependents(_, _)
Dependents(h, S) ==
    LET n == S \cup {j \in Slots : h[j].tail # "None" /\ h[j].anchor \in S}
    IN IF n = S THEN S ELSE Dependents(h, n)

\* Moving the value out of slot i ends every borrow of it: the bindings
\* whose type carries that lifetime can no longer be used (anchor -1), they
\* are only destroyed when their scope ends
EndBorrows(h, i) ==
    [j \in Slots |-> IF j \in Dependents(h, {i}) \ {i}
                     THEN [h[j] EXCEPT !.anchor = -1]
                     ELSE h[j]]

Usable(v) == v.tail # "None" /\ v.anchor # -1

\* ------------------------------------------------------ execution contexts
Idle == [pc |-> "run", slot |-> 0, val |-> 0]
Dead == [pc |-> "dead", slot |-> 0, val |-> 0]

\* the panic state of context t
Eff(t) == [t |-> t, pan |-> panicking[t], fails |-> failures[t], gst |-> gstate]

\* Unwinding destroys the locals of the context: first the value the
\* panicking call owns (slot first, 0: none), then the other bindings,
\* newest first
RECURSIVE UnwindOrder(_, _)
UnwindOrder(h, j) ==
    IF j = 0 THEN <<>> ELSE DropOrder(h[j]) \o UnwindOrder(h, j - 1)

Unwind(h, first, e) ==
    IF first = 0 THEN DropGuards(UnwindOrder(h, NumSlots), e)
    ELSE DropGuards(DropOrder(h[first])
                      \o UnwindOrder([h EXCEPT ![first] = NoVal], NumSlots), e)

\* A call of context t ends with bindings h and panic state e: it returns,
\* or, when it panicked, the context unwinds and dies
Finish(t, h, first, e) ==
    LET u == IF e.pan THEN Unwind(h, first, e) ELSE e
    IN /\ held' = [held EXCEPT ![t] = IF e.pan THEN [j \in Slots |-> NoVal] ELSE h]
       /\ st' = [st EXCEPT ![t] = IF e.pan THEN Dead ELSE Idle]
       /\ panicking' = [panicking EXCEPT ![t] = u.pan]
       /\ failures' = [failures EXCEPT ![t] = u.fails]
       /\ gstate' = u.gst

\* Snd::new / Recv::new: the step with a fresh armed guard g
SndNew(sender, cont, g) == Snd(sender, cont, g)

RecvNew(receiver, cont, g) == Recv(receiver, cont, g)

\* A chain built inside out, as in Snd::new(tx, Recv::new(rx, End)): the
\* continuation is constructed first; shape[k] is the direction and the
\* channel of step k, and the guards are numbered from base + 1 in the order
\* of construction
RECURSIVE Build(_, _, _)
Build(shape, k, base) ==
    IF k > Len(shape) THEN End
    ELSE LET cont == Build(shape, k + 1, base)
             g == base + Len(shape) - k + 1
         IN IF shape[k].dir = "Snd"
            THEN SndNew(shape[k].ch, cont, g)
            ELSE RecvNew(shape[k].ch, cont, g)

StepShape == [dir : {"Snd", "Recv"}, ch : Chans]
Shapes(n) == [1..n -> StepShape]

\* ---------------------------------------------------------------- actions
\* A send that does not wait for a receiver (try_send, or a buffered channel)
SendCallNoWait(t, i, p) ==
    /\ st[t].pc = "run"
    /\ Usable(held[t][i])
    /\ held[t][i].steps # <<>>
    /\ Head(held[t][i].steps).dir = "Snd"
    /\ st' = [st EXCEPT ![t] = [pc |-> "send_ok", slot |-> i, val |-> p]]
    /\ held' = [held EXCEPT ![t] = EndBorrows(held[t], i)]
    /\ UNCHANGED <<closed, gstate, panicking, failures, ops, got>>

\* session.send(payload) is called: self.0.send(payload) blocks
SendCall(t, i, p) ==
    /\ st[t].pc = "run"
    /\ Usable(held[t][i])
    /\ held[t][i].steps # <<>>
    /\ Head(held[t][i].steps).dir = "Snd"
    /\ st' = [st EXCEPT ![t] = [pc |-> "send", slot |-> i, val |-> p]]
    /\ held' = [held EXCEPT ![t] = EndBorrows(held[t], i)]
    /\ UNCHANGED <<closed, gstate, panicking, failures, ops, got>>

\* session.recv() is called: self.0.recv() blocks
RecvCall(t, i) ==
    /\ st[t].pc = "run"
    /\ Usable(held[t][i])
    /\ held[t][i].steps # <<>>
    /\ Head(held[t][i].steps).dir = "Recv"
    /\ st' = [st EXCEPT ![t] = [pc |-> "recv", slot |-> i, val |-> 0]]
    /\ held' = [held EXCEPT ![t] = EndBorrows(held[t], i)]
    /\ UNCHANGED <<closed, gstate, panicking, failures, ops, got>>

\* send returning self, the step not consumed
SendResultWhole(v) == v

\* what send returns: self.1
SendResult(v) == Cont(v)

\* what recv returns: (result, self.1)
RecvResult(v, result) == <<result, Cont(v)>>

\* the step context t is inside of
Cur(t) == Head(held[t][st[t].slot].steps)

\* The zero-capacity channel hands the payload of a blocked sender to a
\* blocked receiver: both transport calls return Ok
Transfer(s, r) ==
    /\ st[s].pc = "send"
    /\ st[r].pc = "recv"
    /\ Cur(s).ch = Cur(r).ch
    /\ ~closed[Cur(s).ch]
    /\ st' = [st EXCEPT ![s].pc = "send_ok",
                        ![r] = [pc |-> "recv_ok", slot |-> st[r].slot, val |-> st[s].val]]
    /\ ops' = [ops EXCEPT
                 ![s] = Append(@, [dir |-> "Snd", ch |-> Cur(s).ch,
                                   val |-> st[s].val, g |-> Cur(s).g]),
                 ![r] = Append(@, [dir |-> "Recv", ch |-> Cur(r).ch,
                                   val |-> st[s].val, g |-> Cur(r).g])]
    /\ UNCHANGED <<held, closed, gstate, panicking, failures, got>>

\* send after the transport returned Ok: self.2.disarm(); self.1
SendRet(t) ==
    /\ st[t].pc = "send_ok"
    /\ LET i == st[t].slot
           v == held[t][i]
       IN Finish(t, [held[t] EXCEPT ![i] = SendResult(v)], 0, Disarm(Cur(t).g, Eff(t)))
    /\ UNCHANGED <<closed, ops, got>>

\* recv after the transport returned Ok: self.2.disarm(); (result, self.1)
RecvRet(t) ==
    /\ st[t].pc = "recv_ok"
    /\ LET i == st[t].slot
           v == held[t][i]
           r == RecvResult(v, st[t].val)
       IN /\ Finish(t, [held[t] EXCEPT ![i] = r[2]], 0, Disarm(Cur(t).g, Eff(t)))
          /\ got' = [got EXCEPT ![t] = Append(@, r[1])]
    /\ UNCHANGED <<closed, ops>>

\* The Err of the transport call is ignored (let _ = ...) instead of
\* unwrapped: the guard is disarmed and the continuation returned
TransportErrIgnored(t) ==
    /\ st[t].pc \in {"send", "recv"}
    /\ closed[Cur(t).ch]
    /\ Finish(t, [held[t] EXCEPT ![st[t].slot] = Cont(@)], 0, Disarm(Cur(t).g, Eff(t)))
    /\ UNCHANGED <<closed, ops, got>>

\* A transport call that gives up after a while (send_timeout, try_recv):
\* Err without the channel being closed
TransportFailTimeout(t) ==
    /\ st[t].pc \in {"send", "recv"}
    /\ Finish(t, held[t], st[t].slot,
              [Eff(t) EXCEPT !.pan = TRUE,
                             !.fails = Append(@, [kind |-> "transport", g |-> 0])])
    /\ UNCHANGED <<closed, ops, got>>

\* The transport call returns Err on a closed channel and unwrap() panics:
\* self, still whole, and the other locals are destroyed by the unwinding
TransportFail(t) ==
    /\ st[t].pc \in {"send", "recv"}
    /\ closed[Cur(t).ch]
    /\ Finish(t, held[t], st[t].slot,
              [Eff(t) EXCEPT !.pan = TRUE,
                             !.fails = Append(@, [kind |-> "transport", g |-> 0])])
    /\ UNCHANGED <<closed, ops, got>>

\* The value bound in slot i is discarded: drop(x), or its scope ends
Drop(t, i) ==
    /\ st[t].pc = "run"
    /\ held[t][i].tail # "None"
    /\ Finish(t, [EndBorrows(held[t], i) EXCEPT ![i] = NoVal], 0,
              DropGuards(DropOrder(held[t][i]), Eff(t)))
    /\ UNCHANGED <<closed, ops, got>>

\* A split that destroys the value it is given instead of dividing it
SplitCallDiscarding(t, i, j, k) ==
    /\ CanSplit(held[t][i], k)
    /\ Drop(t, i)

\* split!(x => a, b): the remainder b is bound in slot i, the borrowed
\* value a in the free slot j
SplitCall(t, i, j, k) ==
    /\ st[t].pc = "run"
    /\ Usable(held[t][i])
    /\ CanSplit(held[t][i], k)
    /\ j # i
    /\ held[t][j] = NoVal
    /\ \A x \in Slots : (x # i /\ held[t][x] = NoVal) => j <= x
    /\ LET p == SplitMacro(held[t][i], k, i)
       IN held' = [held EXCEPT ![t] = [EndBorrows(held[t], i) EXCEPT ![i] = p[2], ![j] = p[1]]]
    /\ UNCHANGED <<st, closed, gstate, panicking, failures, ops, got>>

\* The two statements of split!, one at a time:
\* let (unrestricted, b) = unsafe { Split::split(x) }
SplitOnly(t, i, j, k) ==
    /\ st[t].pc = "run"
    /\ Usable(held[t][i])
    /\ CanSplit(held[t][i], k)
    /\ j # i
    /\ held[t][j] = NoVal
    /\ LET p == Split(held[t][i], k)
       IN held' = [held EXCEPT ![t] = [EndBorrows(held[t], i) EXCEPT ![i] = p[2], ![j] = p[1]]]
    /\ UNCHANGED <<st, closed, gstate, panicking, failures, ops, got>>

\* let a = restrict_with_type_info(unrestricted, &b)
Restrict(t, j, b) ==
    /\ st[t].pc = "run"
    /\ Usable(held[t][j])
    /\ held[t][b].tail # "None"
    /\ held' = [held EXCEPT ![t][j] = RestrictWithTypeInfo(@, b)]
    /\ UNCHANGED <<st, closed, gstate, panicking, failures, ops, got>>

\* The channel is closed (close(), or the last endpoint of one side is
\* gone).  A context observes it only inside a transport call, so the closing
\* is taken when some context is blocked on the channel.
CloseChan(c) ==
    /\ ~closed[c]
    /\ \E t \in Ctx : st[t].pc \in {"send", "recv"} /\ Cur(t).ch = c
    /\ closed' = [closed EXCEPT ![c] = TRUE]
    /\ UNCHANGED <<held, st, gstate, panicking, failures, ops, got>>

\* Each context starts with one freshly constructed session in slot 1
Init ==
    /\ \E na \in 0..MaxGuards : \E nb \in 0..(MaxGuards - na) :
         \E sa \in Shapes(na), sb \in Shapes(nb) :
           /\ held = [t \in Ctx |-> [j \in Slots |->
                        IF j # 1 THEN NoVal
                        ELSE IF t = "A" THEN Build(sa, 1, 0) ELSE Build(sb, 1, na)]]
           /\ gstate = [g \in 1..(na + nb) |-> Armed]
    /\ st = [t \in Ctx |-> Idle]
    /\ closed = [c \in Chans |-> FALSE]
    /\ panicking = [t \in Ctx |-> FALSE]
    /\ failures = [t \in Ctx |-> <<>>]
    /\ ops = [t \in Ctx |-> <<>>]
    /\ got = [t \in Ctx |-> <<>>]
    /\ pcx = [t \in Ctx \cup {"M"} |-> 0]

\* Any client: the contexts call the operations in any order
Next ==
    \/ \E t \in Ctx, i \in Slots, p \in Payloads : SendCall(t, i, p) /\ UNCHANGED pcx
    \/ \E t \in Ctx, i \in Slots : RecvCall(t, i) /\ UNCHANGED pcx
    \/ \E s \in Ctx, r \in Ctx : Transfer(s, r) /\ UNCHANGED pcx
    \/ \E t \in Ctx : SendRet(t) /\ UNCHANGED pcx
    \/ \E t \in Ctx : RecvRet(t) /\ UNCHANGED pcx
    \/ \E t \in Ctx : TransportFail(t) /\ UNCHANGED pcx
    \/ \E t \in Ctx, i \in Slots : Drop(t, i) /\ UNCHANGED pcx
    \/ \E t \in Ctx, i \in Slots, j \in Slots, k \in 0..MaxGuards :
          SplitCall(t, i, j, k) /\ UNCHANGED pcx
    \/ \E c \in Chans : CloseChan(c) /\ UNCHANGED pcx

Spec == Init /\ [][Next]_vars

\* ---------------------------------------------- split against no split
MaxLen == 2         \* steps of the chain that is split

\* The peer of context t, at the other end of its channel, completes the
\* rendezvous: it takes the payload of t's send, or offers p to t's recv
PeerReady(t, p) ==
    /\ st[t].pc \in {"send", "recv"}
    /\ ~closed[Cur(t).ch]
    /\ st' = [st EXCEPT ![t] =
                IF st[t].pc = "send"
                THEN [@ EXCEPT !.pc = "send_ok"]
                ELSE [@ EXCEPT !.pc = "recv_ok", !.val = p]]
    /\ ops' = [ops EXCEPT ![t] =
                 Append(@, [dir |-> Cur(t).dir, ch |-> Cur(t).ch,
                            val |-> IF st[t].pc = "send" THEN st[t].val ELSE p,
                            g |-> Cur(t).g])]
    /\ UNCHANGED <<held, closed, gstate, panicking, failures, got>>

\* Context A splits its chain and consumes the borrowed prefix, then the
\* remainder; context B then consumes an equal chain unsplit, with the
\* payloads A was given.  pcx["A"] is 0 before the split, 1 + k after it.
Exhausted(t) == st[t].pc = "run" /\ \A j \in Slots : held[t][j].steps = <<>>

\* the binding context t consumes next: the borrowed prefix before the remainder
NextSlot(t) == IF held[t][2].steps # <<>> THEN 2 ELSE 1

\* the payloads context t may be given for its next operation
Fed(t) ==
    IF t = "B" /\ Len(ops["B"]) < Len(ops["A"])
    THEN {ops["A"][Len(ops["B"]) + 1].val}
    ELSE Payloads

Turn(t) == IF t = "A" THEN pcx["A"] > 0 ELSE Exhausted("A") /\ pcx["A"] > 0

InitSplit ==
    /\ \E n \in 0..MaxLen : \E shape \in Shapes(n) :
          /\ held = [t \in Ctx |-> [j \in Slots |->
                       IF j # 1 THEN NoVal
                       ELSE IF t = "A" THEN Build(shape, 1, 0) ELSE Build(shape, 1, n)]]
          /\ gstate = [g \in 1..(2 * n) |-> Armed]
    /\ st = [t \in Ctx |-> Idle]
    /\ closed = [c \in Chans |-> FALSE]
    /\ panicking = [t \in Ctx |-> FALSE]
    /\ failures = [t \in Ctx |-> <<>>]
    /\ ops = [t \in Ctx |-> <<>>]
    /\ got = [t \in Ctx |-> <<>>]
    /\ pcx = [t \in Ctx \cup {"M"} |-> 0]

NextSplit ==
    \/ \E k \in 0..MaxLen :
          /\ pcx["A"] = 0
          /\ SplitCall("A", 1, 2, k)
          /\ pcx' = [pcx EXCEPT !["A"] = 1 + k]
    \/ \E t \in Ctx : \E p \in Fed(t) :
          Turn(t) /\ SendCall(t, NextSlot(t), p) /\ UNCHANGED pcx
    \/ \E t \in Ctx : Turn(t) /\ RecvCall(t, NextSlot(t)) /\ UNCHANGED pcx
    \/ \E t \in Ctx : \E p \in Fed(t) : PeerReady(t, p) /\ UNCHANGED pcx
    \/ \E t \in Ctx : SendRet(t) /\ UNCHANGED pcx
    \/ \E t \in Ctx : RecvRet(t) /\ UNCHANGED pcx

SplitSpec == InitSplit /\ [][NextSplit]_vars

\* ------------------------------------------------- examples/basic_use.rs
\* forward_once sending a fixed value instead of the one it received
ForwardOnceStale ==
    <<[op |-> "call", slot |-> 2, val |-> 0],
      [op |-> "recv", slot |-> 2, val |-> 0],
      [op |-> "println", slot |-> 0, val |-> 0],
      [op |-> "send", slot |-> 2, val |-> 0],
      [op |-> "drop", slot |-> 2, val |-> 0],
      [op |-> "ret", slot |-> 2, val |-> 0]>>

\* forward_once without its send!: the session is dropped after the recv!
ForwardOnceNoSend ==
    <<[op |-> "call", slot |-> 2, val |-> 0],
      [op |-> "recv", slot |-> 2, val |-> 0],
      [op |-> "println", slot |-> 0, val |-> 0],
      [op |-> "drop", slot |-> 2, val |-> 0],
      [op |-> "ret", slot |-> 2, val |-> 0]>>

\* forward_once(session): recv!(session, x); println!; send!(session, x);
\* drop(session); the session is the binding in slot 2
ForwardOnce ==
    <<[op |-> "call", slot |-> 2, val |-> 0],
      [op |-> "recv", slot |-> 2, val |-> 0],
      [op |-> "println", slot |-> 0, val |-> 0],
      [op |-> "send_x", slot |-> 2, val |-> 0],
      [op |-> "drop", slot |-> 2, val |-> 0],
      [op |-> "ret", slot |-> 2, val |-> 0]>>

\* split!(x => borrow, x) with x in slot 1 and borrow in slot 2, the borrowed
\* prefix two steps long (the parameter type of forward_once): the split,
\* then the restriction
SplitBorrow ==
    <<[op |-> "split", slot |-> 1, val |-> 2],
      [op |-> "restrict", slot |-> 2, val |-> 1]>>

\* thread_one: the spawned thread starts; send!(session1, 100);
\* split!(session1 => borrow, session1); forward_once(borrow); the closure
\* ends (session1 is dropped) and the thread exits
ThreadOne ==
    <<[op |-> "start", slot |-> 0, val |-> 0],
      [op |-> "send", slot |-> 1, val |-> 100]>> \o SplitBorrow \o ForwardOnce
      \o <<[op |-> "drop", slot |-> 1, val |-> 0],
           [op |-> "exit", slot |-> 0, val |-> 0]>>

\* thread_two: the spawned thread starts; split!(session2 => borrow,
\* session2); forward_once(borrow); recv!(session2, result); println!; the
\* closure ends (session2 is dropped) and the thread exits
ThreadTwo ==
    <<[op |-> "start", slot |-> 0, val |-> 0]>> \o SplitBorrow \o ForwardOnce
      \o <<[op |-> "recv", slot |-> 1, val |-> 0],
           [op |-> "println", slot |-> 0, val |-> 0],
           [op |-> "drop", slot |-> 1, val |-> 0],
           [op |-> "exit", slot |-> 0, val |-> 0]>>

Prog(t) == IF t = "A" THEN ThreadOne ELSE ThreadTwo

\* main: the channel (0 -> 1), session1 (-> 2), session2 (-> 3),
\* thread::spawn(thread_one) (-> 4), thread::spawn(thread_two) (-> 5),
\* thread_one.join() (-> 6), thread_two.join() (-> 7)
Spawned(t) == IF t = "A" THEN pcx["M"] >= 4 ELSE pcx["M"] >= 5

Finished(t) == pcx[t] = Len(Prog(t))

\* context t is running and has a statement left
Running(t) == Spawned(t) /\ ~Finished(t)

\* the statement context t is at
Instr(t) == Prog(t)[pcx[t] + 1]

Advance(t) == pcx' = [pcx EXCEPT ![t] = @ + 1]

\* main: session1 and session2 over the one channel kanal::bounded::<u32>(0)
Session1 ==
    Build(<<[dir |-> "Snd", ch |-> 1], [dir |-> "Recv", ch |-> 1],
            [dir |-> "Snd", ch |-> 1]>>, 1, 0)

Session2 ==
    Build(<<[dir |-> "Recv", ch |-> 1], [dir |-> "Snd", ch |-> 1],
            [dir |-> "Recv", ch |-> 1]>>, 1, 3)

InitExample ==
    /\ held = [t \in Ctx |-> [j \in Slots |-> NoVal]]
    /\ gstate = <<>>
    /\ st = [t \in Ctx |-> Idle]
    /\ closed = [c \in Chans |-> FALSE]
    /\ panicking = [t \in Ctx |-> FALSE]
    /\ failures = [t \in Ctx |-> <<>>]
    /\ ops = [t \in Ctx |-> <<>>]
    /\ got = [t \in Ctx |-> <<>>]
    /\ pcx = [t \in Ctx \cup {"M"} |-> 0]

\* main constructs the session that context t will own: three armed guards
MainBuilds(t, session) ==
    /\ held' = [held EXCEPT ![t][1] = session]
    /\ gstate' = gstate \o <<Armed, Armed, Armed>>
    /\ pcx' = [pcx EXCEPT !["M"] = @ + 1]
    /\ UNCHANGED <<st, closed, panicking, failures, ops, got>>

NextExample ==
    \/ pcx["M"] = 1 /\ MainBuilds("A", Session1)
    \/ pcx["M"] = 2 /\ MainBuilds("B", Session2)
    \/ /\ pcx["M"] \in {0, 3, 4}
       /\ pcx' = [pcx EXCEPT !["M"] = @ + 1]
       /\ UNCHANGED <<held, st, closed, gstate, panicking, failures, ops, got>>
    \/ /\ pcx["M"] = 5 /\ (Finished("A") \/ st["A"] = Dead)
       /\ pcx' = [pcx EXCEPT !["M"] = @ + 1]
       /\ UNCHANGED <<held, st, closed, gstate, panicking, failures, ops, got>>
    \/ /\ pcx["M"] = 6 /\ (Finished("B") \/ st["B"] = Dead)
       /\ pcx' = [pcx EXCEPT !["M"] = @ + 1]
       /\ UNCHANGED <<held, st, closed, gstate, panicking, failures, ops, got>>
    \/ \E t \in Ctx :
          /\ Running(t) /\ Instr(t).op = "send"
          /\ SendCall(t, Instr(t).slot, Instr(t).val) /\ UNCHANGED pcx
    \/ \E t \in Ctx :
          /\ Running(t) /\ Instr(t).op = "send_x"
          /\ SendCall(t, Instr(t).slot, got[t][Len(got[t])]) /\ UNCHANGED pcx
    \/ \E t \in Ctx :
          /\ Running(t) /\ Instr(t).op = "recv"
          /\ RecvCall(t, Instr(t).slot) /\ UNCHANGED pcx
    \/ \E s \in Ctx, r \in Ctx : Transfer(s, r) /\ UNCHANGED pcx
    \/ \E t \in Ctx : SendRet(t) /\ Advance(t)
    \/ \E t \in Ctx : RecvRet(t) /\ Advance(t)
    \/ \E t \in Ctx :
          /\ Running(t) /\ Instr(t).op = "split"
          /\ SplitOnly(t, Instr(t).slot, 2, Instr(t).val) /\ Advance(t)
    \/ \E t \in Ctx :
          /\ Running(t) /\ Instr(t).op = "restrict"
          /\ Restrict(t, Instr(t).slot, Instr(t).val) /\ Advance(t)
    \/ \E t \in Ctx :
          /\ Running(t) /\ Instr(t).op \in {"start", "println", "call", "ret", "exit"}
          /\ st[t].pc = "run"
          /\ Advance(t)
          /\ UNCHANGED <<held, st, closed, gstate, panicking, failures, ops, got>>
    \/ \E t \in Ctx :
          /\ Running(t) /\ Instr(t).op = "drop"
          /\ Drop(t, Instr(t).slot) /\ Advance(t)

ExampleSpec == InitExample /\ [][NextExample]_vars

\* The example under a fair scheduler: main and the two threads are OS
\* threads, a step that stays possible is eventually taken
FairExampleSpec == ExampleSpec /\ WF_vars(NextExample)

\* ----------------------------------------------------------------- claims
Guards == DOMAIN gstate

\* C1: an armed guard destroyed without disarm while its context is not
\* already unwinding raises an affine-violation failure
C1_ArmedDropRaises ==
    \A g \in Guards :
        (gstate[g].s = "dropped" /\ ~gstate[g].unwinding) =>
            /\ gstate[g].raised
            /\ \E k \in DOMAIN failures[gstate[g].by] :
                  failures[gstate[g].by][k] = [kind |-> "affine", g |-> g]

C1_Witness ==
    \E g \in Guards :
        gstate[g].s = "dropped" /\ ~gstate[g].unwinding /\ gstate[g].raised

\* disarm has been called on guard g: its step performed its transport
\* operation and the send/recv that owns it has gone past self.2.disarm()
DisarmCalled(g) ==
    \E t \in Ctx :
        /\ \E k \in DOMAIN ops[t] : ops[t][k].g = g
        /\ ~(st[t].pc \in {"send_ok", "recv_ok"} /\ Cur(t).g = g)

\* C2: once disarm has been called on a guard, the guard stays disarmed and
\* no failure is ever raised for it, whatever the execution does afterwards
C2_DisarmedNeverFails ==
    \A g \in Guards :
        DisarmCalled(g) =>
            /\ gstate[g] = Disarmed
            /\ \A t \in Ctx : \A k \in DOMAIN failures[t] : failures[t][k].g # g

\* a guard was disarmed and its context then discarded all it held
C2_Witness ==
    \E g \in Guards : \E t \in Ctx :
        /\ DisarmCalled(g)
        /\ \E k \in DOMAIN ops[t] : ops[t][k].g = g
        /\ st[t].pc = "run"
        /\ \A j \in Slots : held[t][j] = NoVal

\* C3: an armed guard destroyed while its context is already unwinding raises
\* nothing: the context's only failure is the original one
C3_NoSecondaryFailure ==
    \A g \in Guards :
        (gstate[g].s = "dropped" /\ gstate[g].unwinding) =>
            /\ ~gstate[g].raised
            /\ Len(failures[gstate[g].by]) = 1
            /\ failures[gstate[g].by][1].g # g

C3_Witness ==
    \E g \in Guards : gstate[g].s = "dropped" /\ gstate[g].unwinding

\* C4: when a context discards a session value whose head is an unexecuted
\* Snd/Recv step, an affine-violation failure is raised in that context by a
\* guard of the value and the context dies; when it discards a bare End or
\* Return, nothing is raised and it runs on
C4_DiscardUnusedRaises ==
    [][\A t \in Ctx, i \in Slots :
          Drop(t, i) =>
             IF held[t][i].steps # <<>>
             THEN /\ Len(failures'[t]) = Len(failures[t]) + 1
                  /\ failures'[t][Len(failures'[t])].kind = "affine"
                  /\ \E n \in DOMAIN held[t][i].steps :
                        failures'[t][Len(failures'[t])].g = held[t][i].steps[n].g
                  /\ st'[t] = Dead
             ELSE /\ failures'[t] = failures[t]
                  /\ st'[t] = Idle
                  /\ gstate' = gstate]_vars

\* a fresh Snd/Recv<T, End> was dropped unused in one context, and a bare End
\* or Return was dropped in the other
C4_Witness ==
    \E t \in Ctx, u \in Ctx :
        /\ t # u
        /\ Len(failures[t]) = 1 /\ failures[t][1].kind = "affine"
        /\ ops[t] = <<>>
        /\ st[u].pc = "run" /\ failures[u] = <<>>
        /\ \A j \in Slots : held[u][j] = NoVal

\* context s sent once and context r received once, each from a one-step
\* session in slot 1, both calls have returned and nothing was split off or
\* discarded
RoundTripDone(s, r) ==
    /\ s # r
    /\ Cardinality(Guards) = 2
    /\ st[s].pc = "run" /\ st[r].pc = "run"
    /\ Len(ops[s]) = 1 /\ ops[s][1].dir = "Snd"
    /\ Len(ops[r]) = 1 /\ ops[r][1].dir = "Recv"
    /\ \A t \in {s, r} : held[t][1] # NoVal /\ held[t][2] = NoVal

\* C5: when one participant sends v from a Snd<T, End> and its peer receives
\* from a Recv<T, End> on the same channel, recv returns exactly v, both hold
\* End, and no guard is left armed
C5_RoundTrip ==
    \A s \in Ctx, r \in Ctx :
        RoundTripDone(s, r) =>
            /\ ops[s][1].ch = ops[r][1].ch
            /\ got[r] = <<ops[s][1].val>>
            /\ held[s][1] = End /\ held[r][1] = End
            /\ \A g \in Guards : gstate[g] = Disarmed

C5_Witness ==
    \E s \in Ctx, r \in Ctx : RoundTripDone(s, r) /\ got[r] = <<2>>

\* C10: a send or recv on a closed channel raises a transport failure and
\* nothing else: the call does not succeed or retry, no continuation comes
\* back (the context's values are destroyed), and the context, once dead,
\* performs no further transport operation
C10_ClosedChannelFatal ==
    [][\A t \in Ctx :
          /\ (st[t].pc \in {"send", "recv"} /\ closed[Cur(t).ch] /\ st'[t] # st[t]) =>
                /\ failures'[t] = Append(failures[t], [kind |-> "transport", g |-> 0])
                /\ st'[t] = Dead
                /\ ops'[t] = ops[t]
                /\ got'[t] = got[t]
                /\ \A j \in Slots : held'[t][j] = NoVal
          /\ st[t] = Dead => (st'[t] = Dead /\ ops'[t] = ops[t])]_vars

\* a two-step chain failed on its first step
C10_Witness ==
    \E t \in Ctx :
        /\ st[t] = Dead
        /\ failures[t] = <<[kind |-> "transport", g |-> 0]>>
        /\ ops[t] = <<>>
        /\ Cardinality({g \in Guards : gstate[g].s = "dropped" /\ gstate[g].by = t}) = 2

\* a log of transport operations without the guards: direction, endpoint, payload
Strip(log) ==
    [n \in DOMAIN log |-> [dir |-> log[n].dir, ch |-> log[n].ch, val |-> log[n].val]]

\* A has split and consumed the borrowed prefix and the remainder, and B has
\* consumed the unsplit chain
BothConsumed == pcx["A"] > 0 /\ Exhausted("A") /\ Exhausted("B")

\* C6: splitting a chain at k, consuming the borrowed prefix and then the
\* remainder performs the same transport operations (direction, endpoint,
\* payload), in the same order, as consuming the unsplit chain
C6_SplitComposition ==
    BothConsumed =>
        Strip(ops["A"]) = Strip(ops["B"])

\* a two-step chain of a send and a receive, split after its first step
C6_Witness ==
    /\ BothConsumed
    /\ pcx["A"] = 2
    /\ Len(ops["A"]) = 2
    /\ ops["A"][1].dir # ops["A"][2].dir

\* C7: a split with an empty prefix yields a bare Return and leaves the value
\* as it was: same steps, endpoints and guards, every guard as armed as
\* before, and no transport operation
C7_ZeroLengthSplit ==
    [][\A t \in Ctx, i \in Slots, j \in Slots :
          SplitCall(t, i, j, 0) =>
             /\ held'[t][j].steps = <<>>
             /\ held'[t][j].tail = "Return"
             /\ held'[t][i] = held[t][i]
             /\ gstate' = gstate
             /\ ops' = ops
             /\ st' = st]_vars

\* a two-step chain after a split with an empty prefix
C7_Witness ==
    \E t \in Ctx :
        /\ Len(held[t][1].steps) = 2
        /\ held[t][2].steps = <<>> /\ held[t][2].tail = "Return"
        /\ \A n \in 1..2 : gstate[held[t][1].steps[n].g] = Armed

\* C8: in the example, the value thread_two receives from its remainder
\* (result, the second value recv returns to it) is 100
C8_FinalValueIs100 ==
    /\ Len(got["B"]) >= 2 => got["B"][2] = 100
    /\ Finished("B") => Len(got["B"]) = 2

C8_Witness == Finished("B") /\ got["B"][2] = 100 /\ pcx["M"] = 7

\* context t starts an operation on the value in slot i
OperatesOn(t, i) ==
    \/ \E p \in Payloads : SendCall(t, i, p)
    \/ RecvCall(t, i)
    \/ \E j \in Slots, k \in 0..MaxGuards : SplitCall(t, i, j, k)

\* C9: after split!, no send, recv or split on the remainder happens while a
\* sub-session borrowed from it still holds an unexecuted step
C9_RemainderInertWhileBorrowed ==
    [][\A t \in Ctx, i \in Slots :
          OperatesOn(t, i) =>
             \A j \in Slots :
                ~(held[t][j].anchor = i /\ held[t][j].steps # <<>>)]_vars

\* the guards of the steps context t still holds, executed or not
HeldGuards(t) ==
    {held[t][j].steps[m].g : <<j, m>> \in
        {x \in Slots \X (1..MaxGuards) : x[2] \in DOMAIN held[t][x[1]].steps}}

\* the step of context t whose transport call returned Ok and whose send/recv
\* has not yet returned (0: none)
InFlight(t) == IF st[t].pc \in {"send_ok", "recv_ok"} THEN Cur(t).g ELSE 0

\* C11: within one participant's chain the transport operations happen in
\* the order of the steps, each at most once: the operations performed are
\* those of consecutive steps (guards are numbered against the chain), and
\* no step that comes before a performed one is still waiting unexecuted
C11_ChainOrder ==
    \A t \in Ctx :
        /\ \A n \in 1..(Len(ops[t]) - 1) : ops[t][n + 1].g = ops[t][n].g - 1
        /\ \A n \in DOMAIN ops[t] : \A g \in HeldGuards(t) :
              g < ops[t][n].g \/ (g = ops[t][n].g /\ g = InFlight(t))

\* where the live steps are: context, slot, position in the value.  A step
\* lives until the send/recv that consumes it returns.
LiveSteps ==
    {x \in Ctx \X Slots \X (1..MaxGuards) : x[3] \in DOMAIN held[x[1]][x[2]].steps}

GuardAt(x) == held[x[1]][x[2]].steps[x[3]].g

\* C12: every live Snd/Recv step owns exactly one armed guard and every
\* armed guard is owned by exactly one live step, so the armed guards are as
\* many as the live steps; a disarmed guard is one whose send/recv performed
\* its transport operation
C12_OneArmedGuardPerStep ==
    /\ \A x \in LiveSteps : gstate[GuardAt(x)] = Armed
    /\ \A x \in LiveSteps, y \in LiveSteps : GuardAt(x) = GuardAt(y) => x = y
    /\ \A g \in Guards : gstate[g] = Armed => \E x \in LiveSteps : GuardAt(x) = g
    /\ Cardinality(LiveSteps) = Cardinality({g \in Guards : gstate[g] = Armed})
    /\ \A g \in Guards :
          gstate[g] = Disarmed => \E t \in Ctx : \E n \in DOMAIN ops[t] : ops[t][n].g = g

\* after a split and the send/recv of the borrowed step: its guard, moved
\* into the borrowed value by the split, is disarmed, and the guard of the
\* remainder is armed
C12_Witness ==
    \E t \in Ctx :
        /\ Len(ops[t]) = 1 /\ gstate[ops[t][1].g] = Disarmed
        /\ Len(held[t][1].steps) = 1 /\ gstate[held[t][1].steps[1].g] = Armed
        /\ held[t][2].steps = <<>> /\ held[t][2].tail = "Return"

\* the guards of the steps of a session value
GuardsOf(v) == {v.steps[m].g : m \in DOMAIN v.steps}

\* C13: a split partitions the chain: the k steps of the borrowed value
\* followed by the steps of the remainder are the steps of the original value
\* in the original order (endpoints and guards included), the borrowed value
\* ends in Return, the remainder ends as the original did, and no step is in
\* both
C13_SplitPartitions ==
    [][\A t \in Ctx, i \in Slots, j \in Slots, k \in 0..MaxGuards :
          SplitCall(t, i, j, k) =>
             /\ held'[t][j].steps \o held'[t][i].steps = held[t][i].steps
             /\ Len(held'[t][j].steps) = k
             /\ held'[t][j].tail = "Return"
             /\ held'[t][i].tail = held[t][i].tail
             /\ GuardsOf(held'[t][j]) \cap GuardsOf(held'[t][i]) = {}]_vars

\* a three-step chain split after its second step
C13_Witness ==
    \E t \in Ctx :
        /\ ops[t] = <<>>
        /\ Len(held[t][2].steps) = 2 /\ held[t][2].tail = "Return"
        /\ Len(held[t][1].steps) = 1 /\ held[t][1].tail = "End"
        /\ held[t][2].steps[1].g = 3 /\ held[t][2].steps[2].g = 2
        /\ held[t][1].steps[1].g = 1

\* the value is a borrowed prefix that still holds an unexecuted step
UnusedBorrow(v) == v.tail = "Return" /\ v.steps # <<>>

\* C14: discarding a borrowed prefix that still holds an unexecuted step
\* raises an affine-violation failure at that discard, and no step of the
\* remainder (the steps after the prefix in the chain, whose guards are
\* numbered below the prefix's) has performed a transport operation
C14_UnusedBorrowFailsFirst ==
    [][\A t \in Ctx, j \in Slots :
          (Drop(t, j) /\ UnusedBorrow(held[t][j])) =>
             /\ Len(failures'[t]) = Len(failures[t]) + 1
             /\ failures'[t][Len(failures'[t])].kind = "affine"
             /\ failures'[t][Len(failures'[t])].g \in GuardsOf(held[t][j])
             /\ \A n \in DOMAIN ops'[t] : \A g \in GuardsOf(held[t][j]) :
                   ops'[t][n].g > g]_vars

\* C15: a split raises no failure, does not block and performs no transport
\* operation: the step that splits leaves the failures, the panic state, the
\* transport logs, the received values, the channels and the guards as they
\* were, and the context is running after it
C15_SplitIsPure ==
    [][\A t \in Ctx, i \in Slots, j \in Slots, k \in 0..MaxGuards :
          SplitCall(t, i, j, k) =>
             /\ failures' = failures
             /\ panicking' = panicking
             /\ ops' = ops
             /\ got' = got
             /\ closed' = closed
             /\ gstate' = gstate
             /\ st'[t] = Idle]_vars

\* context t has split a Recv step off while context u is blocked sending on
\* the same channel: the split received nothing
C15_Witness ==
    \E t \in Ctx, u \in Ctx :
        /\ st[u].pc = "send" /\ st[t].pc = "run"
        /\ Len(held[t][2].steps) = 1 /\ held[t][2].tail = "Return"
        /\ held[t][2].steps[1].dir = "Recv"
        /\ held[t][2].steps[1].ch = Cur(u).ch
        /\ Len(held[t][1].steps) = 1
        /\ ops[t] = <<>> /\ failures[t] = <<>> /\ got[t] = <<>>

\* in this step the blocked transport call of context t returns Ok
Completes(t) == st[t].pc \in {"send", "recv"} /\ st'[t].pc \in {"send_ok", "recv_ok"}

\* C16: over the rendezvous channel a send gets past its transport call only
\* in the step in which another context, blocked in recv on the same
\* channel, gets past its own and takes exactly the payload sent, and a recv
\* only together with such a send; the guard is disarmed and the continuation
\* returned only after that; a blocked call otherwise stays blocked with its
\* guard armed (or fails on a closed channel)
C16_Rendezvous ==
    [][\A t \in Ctx :
          /\ Completes(t) =>
                \E u \in Ctx \ {t} :
                   /\ Completes(u)
                   /\ st[u].pc # st[t].pc
                   /\ Cur(u).ch = Cur(t).ch
                   /\ \A r \in {t, u} : \A s \in {t, u} :
                         (st[r].pc = "recv" /\ st[s].pc = "send") => st'[r].val = st[s].val
          /\ (st[t].pc \in {"send", "recv"} /\ ~Completes(t)) =>
                /\ st'[t] \in {st[t], Dead}
                /\ gstate'[Cur(t).g].s # "disarmed"
          /\ st[t].pc = "run" => st'[t].pc \notin {"send_ok", "recv_ok"}
          /\ st[t].pc \in {"send", "recv"} => gstate[Cur(t).g] = Armed]_vars

\* a send and a recv have met with payload 2: the sender is past its
\* transport call, the receiver holds the payload, and neither guard is
\* disarmed yet
C16_Witness ==
    \E s \in Ctx, r \in Ctx :
        /\ st[s].pc = "send_ok" /\ st[s].val = 2
        /\ st[r].pc = "recv_ok" /\ st[r].val = 2
        /\ gstate[Cur(s).g] = Armed /\ gstate[Cur(r).g] = Armed

\* both participants are inside a transport call on open channels and the
\* two calls do not match: both send, both receive, or different channels
Mismatch ==
    /\ \A t \in Ctx : st[t].pc \in {"send", "recv"} /\ ~closed[Cur(t).ch]
    /\ \/ st["A"].pc = st["B"].pc
       \/ Cur("A").ch # Cur("B").ch

\* C17: two participants blocked on steps that do not match stay blocked for
\* as long as the channels stay open: nothing but the closing of a channel
\* can happen, no transport operation is performed and no affine-violation
\* or transport failure has been or is raised
C17_MismatchDeadlocks ==
    [][Mismatch =>
          /\ \A t \in Ctx : failures[t] = <<>> /\ ~panicking[t]
          /\ closed' # closed
          /\ st' = st /\ held' = held /\ ops' = ops /\ got' = got
          /\ failures' = failures /\ gstate' = gstate]_vars

\* both participants' next step is a send on the same open channel, and both
\* have called it
C17_Witness ==
    /\ st["A"].pc = "send" /\ st["B"].pc = "send"
    /\ Cur("A").ch = Cur("B").ch
    /\ ~closed[Cur("A").ch]
    /\ Mismatch

\* main has joined both threads, both ran to their end, no failure was
\* raised and every guard was disarmed
ExampleDone ==
    /\ pcx["M"] = 7
    /\ Finished("A") /\ Finished("B")
    /\ \A t \in Ctx : st[t] = Idle /\ failures[t] = <<>> /\ ~panicking[t]
    /\ Cardinality(Guards) = 6
    /\ \A g \in Guards : gstate[g] = Disarmed

\* context t is at the end of its closure, where its session goes out of scope
AtClosureEnd(t) == Running(t) /\ Instr(t).op = "drop" /\ Instr(t).slot = 1

\* C18: under fair scheduling the example always ends with both threads
\* completed and joined; no affine violation or transport failure is ever
\* raised, and each thread's session is End when it goes out of scope
C18_ExampleTerminates ==
    /\ <>[]ExampleDone
    /\ [](\A t \in Ctx : failures[t] = <<>> /\ st[t] # Dead)
    /\ [](\A t \in Ctx : AtClosureEnd(t) => held[t][1] = End /\ held[t][2] = NoVal)

\* both threads are done and joined
C18_Witness == ExampleDone /\ Len(ops["A"]) = 3 /\ Len(ops["B"]) = 3

\* how many of the guards G raised a failure in the next state
Raised(G) == Cardinality({g \in G : gstate'[g].raised})

\* C19: discarding a value that holds N >= 1 unexecuted steps raises exactly
\* one affine-violation failure: every guard of the value is destroyed, one
\* of them raises, and the others are destroyed while that failure
\* propagates and raise nothing
C19_OneFailurePerDiscard ==
    [][\A t \in Ctx, i \in Slots :
          (Drop(t, i) /\ held[t][i].steps # <<>>) =>
             LET G == GuardsOf(held[t][i])
             IN /\ Len(failures'[t]) = Len(failures[t]) + 1
                /\ failures'[t][Len(failures'[t])].kind = "affine"
                /\ \A g \in G : gstate'[g].s = "dropped" /\ gstate'[g].by = t
                /\ Raised(G) = 1
                /\ \A g \in G : ~gstate'[g].raised => gstate'[g].unwinding]_vars

\* a fresh three-step value was discarded: one failure, three guards destroyed
C19_Witness ==
    \E t \in Ctx :
        /\ st[t] = Dead /\ ops[t] = <<>>
        /\ Len(failures[t]) = 1 /\ failures[t][1].kind = "affine"
        /\ Cardinality({g \in Guards : gstate[g].s = "dropped" /\ gstate[g].by = t}) = 3
        /\ Cardinality({g \in Guards : gstate[g].raised}) = 1

\* C20: when a send or recv fails on a closed channel, the transport failure
\* is the only failure of the context: the armed guard of the failing step
\* and the guards of its continuation (and of anything else the context
\* holds) are destroyed while that failure propagates and raise nothing
C20_TransportFailureOnly ==
    [][\A t \in Ctx :
          (st[t].pc \in {"send", "recv"} /\ st'[t] = Dead) =>
             /\ failures'[t] = <<[kind |-> "transport", g |-> 0]>>
             /\ gstate[Cur(t).g] = Armed
             /\ \A j \in Slots : \A g \in GuardsOf(held[t][j]) :
                   /\ gstate'[g].s = "dropped" /\ gstate'[g].by = t
                   /\ gstate'[g].unwinding
                   /\ ~gstate'[g].raised]_vars

\* a three-step chain failed on its first step
C20_Witness ==
    \E t \in Ctx :
        /\ st[t] = Dead /\ ops[t] = <<>>
        /\ failures[t] = <<[kind |-> "transport", g |-> 0]>>
        /\ Cardinality({g \in Guards : gstate[g].s = "dropped" /\ gstate[g].by = t
                                        /\ gstate[g].unwinding /\ ~gstate[g].raised}) = 3

====
